---- MODULE Spec2Model ----
(***************************************************************************)
(* Model of cat394/link-generator: the route flattener and the link        *)
(* renderer of src/src/link_generator.ts (with the stand-alone flattener   *)
(* of src/src/flatten_route_config.ts next to it).                         *)
(*                                                                         *)
(* A JavaScript string is a sequence of one-character strings, so that     *)
(* indexOf, slice, the regular expressions and encodeURIComponent are      *)
(* computed character by character.  An object (and the Map built from     *)
(* one) is a sequence of [k, v] entries in insertion order.                *)
(***************************************************************************)
EXTENDS Integers, Sequences, FiniteSets, TLC

VARIABLES
  phase,         \* "config" (tree not yet flattened), "flat" (flattener applied), "ready" (generator built)
  route_config,  \* the route tree handed to flatten_route_config / link_generator
  options,       \* the LinkGeneratorOptions handed to link_generator
  flat_routes,   \* the object returned by the flattener
  routes,        \* the Map captured by the closure link_generator returns
  last           \* the latest call of the link function and its outcome

vars == <<phase, route_config, options, flat_routes, routes, last>>

----------------------------------------------------------------------------
(* Symbols *)

PathSeparater == "/"
PathParam == ":"
Query == "?"
QuerySeparator == "&"
ConstraintOpen == "<"
ConstraintClose == ">"

----------------------------------------------------------------------------
(* JavaScript values and strings *)

Str(s) == [t |-> "string", s |-> s, n |-> 0]
Num(n) == [t |-> "number", s |-> <<>>, n |-> n]
Bool(b) == [t |-> "boolean", s |-> <<>>, n |-> IF b THEN 1 ELSE 0]
Undefined == [t |-> "undefined", s |-> <<>>, n |-> 0]
Null == [t |-> "null", s |-> <<>>, n |-> 0]

\* String.prototype.indexOf for a one-character needle: 0-based, -1 if absent.
RECURSIVE IndexFrom(_, _, _)
IndexFrom(s, c, i) ==
  IF i > Len(s) THEN -1
  ELSE IF s[i] = c THEN i - 1
  ELSE IndexFrom(s, c, i + 1)

IndexOf(s, c) == IndexFrom(s, c, 1)

\* String.prototype.slice(from, to) with 0 <= from <= to.
Slice(s, from, to) == SubSeq(s, from + 1, to)

EndsWith(s, c) == Len(s) > 0 /\ s[Len(s)] = c

Digit(d) ==
  CASE d = 0 -> "0" [] d = 1 -> "1" [] d = 2 -> "2" [] d = 3 -> "3" [] d = 4 -> "4"
    [] d = 5 -> "5" [] d = 6 -> "6" [] d = 7 -> "7" [] d = 8 -> "8" [] d = 9 -> "9"

RECURSIVE Decimal(_)
Decimal(n) == IF n < 10 THEN <<Digit(n)>> ELSE Decimal(n \div 10) \o <<Digit(n % 10)>>

\* String(value), as the template literal and encodeURIComponent apply it.
StringOf(v) ==
  CASE v.t = "string" -> v.s
    [] v.t = "number" -> Decimal(v.n)
    [] v.t = "boolean" -> IF v.n = 1 THEN <<"t", "r", "u", "e">> ELSE <<"f", "a", "l", "s", "e">>
    [] v.t = "undefined" -> <<"u", "n", "d", "e", "f", "i", "n", "e", "d">>
    [] v.t = "null" -> <<"n", "u", "l", "l">>

\* The characters encodeURIComponent escapes, among those the model uses.
EncodeChar(c) ==
  CASE c = "/" -> <<"%", "2", "F">>
    [] c = "?" -> <<"%", "3", "F">>
    [] c = "&" -> <<"%", "2", "6">>
    [] c = "=" -> <<"%", "3", "D">>
    [] c = "#" -> <<"%", "2", "3">>
    [] c = ":" -> <<"%", "3", "A">>
    [] c = "<" -> <<"%", "3", "C">>
    [] c = ">" -> <<"%", "3", "E">>
    [] c = "|" -> <<"%", "7", "C">>
    [] c = "%" -> <<"%", "2", "5">>
    [] c = " " -> <<"%", "2", "0">>
    [] OTHER -> <<c>>

RECURSIVE EncodeString(_)
EncodeString(s) == IF s = <<>> THEN <<>> ELSE EncodeChar(Head(s)) \o EncodeString(Tail(s))

\* The value inserted as its plain text, nothing escaped.
NoEncoding(v) == StringOf(v)

encodeURIComponent(v) == EncodeString(StringOf(v))

\* obj[key] of an object (or map.get(key)) kept as a sequence of entries;
\* absent stands for JavaScript's undefined.
RECURSIVE Lookup(_, _, _)
Lookup(obj, key, absent) ==
  IF obj = <<>> THEN absent
  ELSE IF Head(obj).k = key THEN Head(obj).v
  ELSE Lookup(Tail(obj), key, absent)

HasKey(obj, key) == \E i \in 1..Len(obj) : obj[i].k = key

\* obj[key] = val: an existing key keeps its place, a new key goes last.
ObjSet(obj, key, val) ==
  IF HasKey(obj, key)
  THEN [i \in 1..Len(obj) |-> IF obj[i].k = key THEN [k |-> key, v |-> val] ELSE obj[i]]
  ELSE Append(obj, [k |-> key, v |-> val])

Keys(obj) == {obj[i].k : i \in 1..Len(obj)}

----------------------------------------------------------------------------
(* link_generator.ts: the flattener and the template helpers *)

remove_query_area(path) ==
  LET starting_query_index == IndexOf(path, Query)
      is_include_query == starting_query_index > 0
  IN IF is_include_query THEN Slice(path, 0, starting_query_index) ELSE path

\* The children copied under their own ids, without the parent's id in front.
RECURSIVE CopyChildrenUnprefixed(_, _, _)
CopyChildrenUnprefixed(result, parent_route_name, children) ==
  IF children = <<>> THEN result
  ELSE CopyChildrenUnprefixed(ObjSet(result, Head(children).k, Head(children).v),
                              parent_route_name, Tail(children))

\* for (const child_route_name in children) result[parent/child] = children[child]
RECURSIVE CopyChildren(_, _, _)
CopyChildren(result, parent_route_name, children) ==
  IF children = <<>> THEN result
  ELSE LET child_route_id == parent_route_name \o <<PathSeparater>> \o Head(children).k
       IN CopyChildren(ObjSet(result, child_route_id, Head(children).v),
                       parent_route_name, Tail(children))

RECURSIVE flatten_route_config(_, _, _)
flatten_route_config(config, parent_path, result) ==
  IF config = <<>> THEN result
  ELSE LET route == Head(config)
           current_path == remove_query_area(route.path)
           path_with_parent == parent_path \o current_path
           own == ObjSet(result, route.id, path_with_parent)
           children == flatten_route_config(route.children, path_with_parent, <<>>)
       IN flatten_route_config(Tail(config), parent_path,
                               CopyChildren(own, route.id, children))

has_constraint_area(path) == IndexOf(path, ConstraintOpen) > 0

\* A replace without the g flag: only the first constraint area goes.
RECURSIVE remove_first_constraint_area(_)
remove_first_constraint_area(path) ==
  IF path = <<>> THEN <<>>
  ELSE LET rest == Tail(path)
           close == IndexOf(rest, ConstraintClose)
       IN IF Head(path) = ConstraintOpen /\ close >= 0
          THEN Slice(rest, close + 1, Len(rest))
          ELSE <<Head(path)>> \o remove_first_constraint_area(rest)

\* path.replace(/<.*?>/g, ""): every "<" that has a ">" after it goes, up to
\* the nearest such ">".
RECURSIVE remove_constraint_area(_)
remove_constraint_area(path) ==
  IF path = <<>> THEN <<>>
  ELSE LET rest == Tail(path)
           close == IndexOf(rest, ConstraintClose)
       IN IF Head(path) = ConstraintOpen /\ close >= 0
          THEN remove_constraint_area(Slice(rest, close + 1, Len(rest)))
          ELSE <<Head(path)>> \o remove_constraint_area(rest)

RECURSIVE RoutesMapFrom(_, _)
RoutesMapFrom(flat_route, routes_map) ==
  IF flat_route = <<>> THEN routes_map
  ELSE LET path_template == Head(flat_route).v
           path_to_format ==
             IF has_constraint_area(path_template)
             THEN remove_constraint_area(path_template)
             ELSE path_template
       IN RoutesMapFrom(Tail(flat_route),
                        ObjSet(routes_map, Head(flat_route).k, path_to_format))

create_routes_map(flat_route) == RoutesMapFrom(flat_route, <<>>)

\* The end (1-based, exclusive) of the run [^/?]+ that starts at position i.
RECURSIVE NameEnd(_, _)
NameEnd(path, i) ==
  IF i > Len(path) \/ path[i] = PathSeparater \/ path[i] = "?" THEN i
  ELSE NameEnd(path, i + 1)

\* path.replace(/(?<=\/):([^\/?]+)/g, (_, name) => encodeURIComponent(params[name]))
RECURSIVE ReplaceParamsFrom(_, _, _)
ReplaceParamsFrom(path, params, i) ==
  IF i > Len(path) THEN <<>>
  ELSE LET end == NameEnd(path, i + 1)
           is_param_area == /\ path[i] = PathParam
                            /\ i > 1
                            /\ path[i - 1] = PathSeparater
                            /\ end > i + 1
       IN IF is_param_area
          THEN LET param_name == SubSeq(path, i + 1, end - 1)
                   param_value == Lookup(params, param_name, Undefined)
               IN encodeURIComponent(param_value) \o ReplaceParamsFrom(path, params, end)
          ELSE <<path[i]>> \o ReplaceParamsFrom(path, params, i + 1)

\* The pattern without its lookbehind, /:([^\/?]+)/g: any ":" opens a parameter.
RECURSIVE ReplaceAnyColonFrom(_, _, _)
ReplaceAnyColonFrom(path, params, i) ==
  IF i > Len(path) THEN <<>>
  ELSE LET end == NameEnd(path, i + 1)
       IN IF path[i] = PathParam /\ end > i + 1
          THEN encodeURIComponent(Lookup(params, SubSeq(path, i + 1, end - 1), Undefined))
               \o ReplaceAnyColonFrom(path, params, end)
          ELSE <<path[i]>> \o ReplaceAnyColonFrom(path, params, i + 1)

replace_any_colon(path, params) == ReplaceAnyColonFrom(path, params, 1)

replace_params_area(path, params) == ReplaceParamsFrom(path, params, 1)

\* Object.entries(query).filter(...).map(...).join("&")
RECURSIVE create_query_string_from_object(_)
create_query_string_from_object(query) ==
  IF query = <<>> THEN <<>>
  ELSE LET value == Head(query).v
           kept == value # Str(<<>>) /\ value # Undefined
           rest == create_query_string_from_object(Tail(query))
       IN IF ~kept THEN rest
          ELSE Head(query).k \o <<"=">> \o encodeURIComponent(value)
               \o (IF rest = <<>> THEN <<>> ELSE <<QuerySeparator>> \o rest)

RECURSIVE QueryStringLoop(_, _)
QueryStringLoop(query_params, qs) ==
  IF query_params = <<>> THEN qs
  ELSE LET partial_qs == create_query_string_from_object(Head(query_params))
       IN QueryStringLoop(Tail(query_params),
            qs \o partial_qs \o (IF partial_qs # <<>> THEN <<"&">> ELSE <<>>))

\* The chunks merged into one object first (Object.assign): a later value of
\* a key overwrites the earlier one.
RECURSIVE MergeChunks(_, _)
MergeChunks(query_params, merged) ==
  IF query_params = <<>> THEN merged
  ELSE LET chunk == Head(query_params)
           RECURSIVE Assign(_, _)
           Assign(entries, obj) ==
             IF entries = <<>> THEN obj
             ELSE Assign(Tail(entries), ObjSet(obj, Head(entries).k, Head(entries).v))
       IN MergeChunks(Tail(query_params), Assign(chunk, merged))

generate_query_string_merged(query_params) ==
  create_query_string_from_object(MergeChunks(query_params, <<>>))

\* The loop's result as it is, the "&" written after the last pair kept.
generate_query_string_unstripped(query_params) == QueryStringLoop(query_params, <<>>)

generate_query_string(query_params) ==
  LET qs == QueryStringLoop(query_params, <<>>)
  IN IF EndsWith(qs, QuerySeparator) THEN Slice(qs, 0, Len(qs) - 1) ELSE qs

\* result[key] = [value] at every occurrence: only the last value stays.
RECURSIVE QueryContextLastValue(_, _)
QueryContextLastValue(q, result) ==
  IF q = <<>> THEN result
  ELSE QueryContextLastValue(Tail(q), ObjSet(result, Head(q).k, <<Head(q).v>>))

\* result[key] is a list of the values given for key, in supplied order.
RECURSIVE QueryContextEntries(_, _)
QueryContextEntries(q, result) ==
  IF q = <<>> THEN result
  ELSE LET key == Head(q).k
           value == Head(q).v
           seen == Lookup(result, key, <<>>)
       IN QueryContextEntries(Tail(q), ObjSet(result, key, Append(seen, value)))

RECURSIVE QueryContextLoop(_, _)
QueryContextLoop(query_params, result) ==
  IF query_params = <<>> THEN result
  ELSE QueryContextLoop(Tail(query_params), QueryContextEntries(Head(query_params), result))

create_query_context(query_params) == QueryContextLoop(query_params, <<>>)

----------------------------------------------------------------------------
(* link_generator.ts: RouteContext, the transform hook and the link function *)

\* new RouteContext(id): #path = "", #params = {}, #query = {}
RouteContext(id) == [id |-> id, path |-> <<>>, params |-> <<>>, query |-> <<>>]

\* JavaScript's undefined as a hook result, next to a returned string.
NoString == [defined |-> FALSE, s |-> <<>>]
SomeString(s) == [defined |-> TRUE, s |-> s]

CustomPrefix == <<"/", "c">>

\* The path a hook writes through the setter _path of its context.
HookPath == <<"/", "x">>

\* The hooks a caller may pass as options.transform, by what they return:
\* "none" is the default (ctx) => ctx.path of link_generator itself, and
\* "set_path" is (ctx) => { ctx._path = "/x"; return undefined; }.
transform(kind, ctx) ==
  CASE kind = "none" -> SomeString(ctx.path)
    [] kind = "prefix" -> SomeString(CustomPrefix \o ctx.path)
    [] kind = "undefined" -> NoString
    [] kind = "set_path" -> NoString

\* The context once the hook has run on it: set _path stores what it is given.
HookEffect(kind, ctx) ==
  IF kind = "set_path" THEN [ctx EXCEPT !.path = HookPath] ELSE ctx

\* transform(ctx) with no fallback: an undefined result gives the empty path.
TransformOrEmpty(kind, ctx) == transform(kind, ctx).s

\* The hook's result thrown away: the path is ctx.path in any case.
TransformIgnored(kind, ctx) == ctx.path

\* transform(ctx) ?? ctx.path
TransformOrPath(kind, ctx) ==
  LET returned == transform(kind, ctx)
  IN IF returned.defined THEN returned.s ELSE HookEffect(kind, ctx).path

\* An option that is not read: the query string is appended in any case.
AlwaysAppendQuery(opts) == TRUE

\* options?.should_append_query ?? true
ShouldAppendQuery(opts) ==
  IF opts.should_append_query = "undefined" THEN TRUE
  ELSE opts.should_append_query = "true"

InvalidRouteId ==
  <<"I", "n", "v", "a", "l", "i", "d", " ", "r", "o", "u", "t", "e", " ", "i", "d", ":", " ">>

Returned(path, hook_calls, ctx) ==
  [kind |-> "return", value |-> path, message |-> <<>>,
   hook_calls |-> hook_calls, ctx |-> ctx]

\* A throw that comes after the hook has run once.
ThrownAfterHook(message) ==
  [kind |-> "throw", value |-> <<>>, message |-> message,
   hook_calls |-> 1, ctx |-> [id |-> <<>>, path |-> <<>>, params |-> <<>>, query |-> <<>>]]

Thrown(message) ==
  [kind |-> "throw", value |-> <<>>, message |-> message,
   hook_calls |-> 0, ctx |-> RouteContext(<<>>)]

\* The arguments after route_id: path_params is an object or undefined,
\* query_params the rest arguments.
NoParams == [given |-> FALSE, obj |-> <<>>]
Params(obj) == [given |-> TRUE, obj |-> obj]

\* !path_template || typeof path_template !== "string": undefined (no such
\* key) and the empty string are both falsy.
IsInvalidTemplate(found, path_template) == ~found \/ path_template = <<>>

\* A message that does not carry the requested id.
InvalidRouteMessageNoId(route_id) == InvalidRouteId

\* `Invalid route id: ${String(route_id)}`
InvalidRouteMessage(route_id) == InvalidRouteId \o route_id

\* The closure link_generator returns, over the captured map and options.
link(routes_map, opts, route_id, path_params, query_params) ==
  LET found == HasKey(routes_map, route_id)
      path_template == Lookup(routes_map, route_id, <<>>)
  IN IF IsInvalidTemplate(found, path_template)
     THEN Thrown(InvalidRouteMessage(route_id))
     ELSE
       LET is_exist_qurey == Len(query_params) > 0
           ctx0 == [RouteContext(route_id) EXCEPT !.path = path_template]
       IN IF ~path_params.given /\ ~is_exist_qurey
          THEN Returned(TransformOrPath(opts.transform, ctx0), 1, ctx0)
          ELSE
            LET path1 == IF path_params.given
                         THEN replace_params_area(path_template, path_params.obj)
                         ELSE path_template
                ctx1 == IF path_params.given
                        THEN [ctx0 EXCEPT !.params = path_params.obj, !.path = path1]
                        ELSE ctx0
                ctx2 == IF is_exist_qurey
                        THEN [ctx1 EXCEPT !.query = create_query_context(query_params)]
                        ELSE ctx1
                path2 == TransformOrPath(opts.transform, ctx2)
                qs == generate_query_string(query_params)
                path3 == IF ShouldAppendQuery(opts) /\ is_exist_qurey /\ qs # <<>>
                         THEN path2 \o <<"?">> \o qs
                         ELSE path2
            IN Returned(path3, 1, ctx2)

----------------------------------------------------------------------------
(* Bounds and input pools *)

MaxNodes == 3    \* nodes of a route tree handed to the flattener
MaxDepth == 2    \* nesting depth of a route tree handed to link_generator
MaxChunks == 3   \* query-chunk arguments of one link call

Route(id, path, children) == [id |-> id, path |-> path, children |-> children]

SiblingIds(config) == {config[i].id : i \in 1..Len(config)}

\* Route ids.
IdPool == {<<"a">>, <<"b">>}

\* Own paths of the routes of a tree handed to the flattener.
FlatPathPool ==
  { <<"/", "a">>,
    <<"/", "a", "?", "k">>,
    <<"?", "k">> }

\* Ordered route trees with n nodes, sibling ids distinct (object keys).
RECURSIVE ForestsOfSize(_)
ForestsOfSize(n) ==
  IF n = 0 THEN {<<>>}
  ELSE UNION { { <<Route(x[1], x[2], x[3])>> \o x[4] :
                   x \in { y \in IdPool \X FlatPathPool
                                  \X ForestsOfSize(k - 1) \X ForestsOfSize(n - k) :
                             y[1] \notin SiblingIds(y[4]) } } : k \in 1..n }

\* Route trees with at most n nodes.
Forests(n) == UNION {ForestsOfSize(k) : k \in 0..n}

\* Own paths of the routes of a tree handed to link_generator.
LinkPathPool ==
  { <<>>,
    <<"/">>,
    <<"/", "a">>,
    <<"a", ":", "3">>,
    <<"/", ":", "p">>,
    <<"/", ":", "p", "<", "(", "m", "|", "o", ")", ">", "?", "k", "<", "m", ">">>,
    <<"?", "k", "<", "m", ">">> }

\* Chains of nested routes, at most d deep; every route has the id "r".
RECURSIVE Chains(_)
Chains(d) ==
  IF d = 0 THEN {<<>>}
  ELSE {<<>>} \cup { <<Route(<<"r">>, path, children)>> :
                       path \in LinkPathPool, children \in Chains(d - 1) }

OptionPool ==
  [should_append_query : {"undefined", "true", "false"},
   transform : {"none", "prefix", "undefined"}]

DefaultOptions == [should_append_query |-> "undefined", transform |-> "none"]

\* Path-param arguments: omitted, {}, and {p: value}.
ParamPool ==
  { NoParams, Params(<<>>) } \cup
  { Params(<<[k |-> <<"p">>, v |-> value]>>) :
      value \in {Str(<<"a">>), Str(<<"/", "<">>), Num(0), Bool(FALSE)} }

Entry(key, value) == [k |-> key, v |-> value]

\* Query-chunk arguments over the keys k and j.
ChunkPool ==
  { <<Entry(<<"k">>, Str(<<"a">>))>>,
    <<Entry(<<"k">>, Str(<<>>))>>,
    <<Entry(<<"k">>, Undefined)>>,
    <<Entry(<<"k">>, Null)>>,
    <<Entry(<<"k">>, Str(<<>>)), Entry(<<"j">>, Str(<<"b", "&">>))>>,
    <<Entry(<<"k">>, Num(1)), Entry(<<"j">>, Undefined)>> }

\* A chunk whose value holds characters that encodeURIComponent escapes.
ReservedChunk == <<Entry(<<"k">>, Str(<<"<", "a", ">">>))>>

RECURSIVE ChunkLists(_)
ChunkLists(n) ==
  IF n = 0 THEN {<<>>}
  ELSE {<<>>} \cup { <<chunk>> \o rest : chunk \in ChunkPool, rest \in ChunkLists(n - 1) }

\* The route ids a caller asks for: every key, the empty id and an unknown id.
CallIds == Keys(routes) \cup {<<>>, <<"x">>}

NoCall ==
  [called |-> FALSE, route_id |-> <<>>, path_params |-> NoParams,
   query_params |-> <<>>, outcome |-> Thrown(<<>>)]

----------------------------------------------------------------------------
(* The stand-alone flattener of flatten_route_config.ts *)

RECURSIVE flatten_route_config_mod(_, _, _)
flatten_route_config_mod(config, parent_path, result) ==
  IF config = <<>> THEN result
  ELSE LET route == Head(config)
           current_path == route.path
           full_path == parent_path \o current_path
           own == ObjSet(result, route.id, full_path)
           parent_path_removed_query_area == remove_query_area(full_path)
           children == flatten_route_config_mod(route.children,
                                                parent_path_removed_query_area, <<>>)
       IN flatten_route_config_mod(Tail(config), parent_path,
                                   CopyChildren(own, route.id, children))

----------------------------------------------------------------------------
(* Specifications *)

\* link_generator(route_config, options): the state after construction.
Generator(config, opts) ==
  /\ phase = "ready"
  /\ route_config = config
  /\ options = opts
  /\ flat_routes = flatten_route_config(config, <<>>, <<>>)
  /\ routes = create_routes_map(flatten_route_config(config, <<>>, <<>>))
  /\ last = NoCall

Init ==
  \E config \in Chains(MaxDepth),
     opts \in {o \in OptionPool : o.transform = "none"} : Generator(config, opts)

\* A call that takes the requested route out of the captured map.
LinkForgetsRoute(route_id, path_params, query_params) ==
  /\ phase = "ready"
  /\ last' = [called |-> TRUE, route_id |-> route_id, path_params |-> path_params,
              query_params |-> query_params,
              outcome |-> link(routes, options, route_id, path_params, query_params)]
  /\ routes' = SelectSeq(routes, LAMBDA e : e.k # route_id)
  /\ UNCHANGED <<phase, route_config, options, flat_routes>>

\* A call that hands the hook one context kept over the calls: params and
\* query stay as an earlier call left them when this call supplies none.
LinkReusingContext(route_id, path_params, query_params) ==
  /\ phase = "ready"
  /\ LET outcome == link(routes, options, route_id, path_params, query_params)
         kept == last.outcome.ctx
         ctx == [outcome.ctx EXCEPT
                   !.params = IF path_params.given THEN @ ELSE kept.params,
                   !.query = IF query_params # <<>> THEN @ ELSE kept.query]
     IN last' = [called |-> TRUE, route_id |-> route_id, path_params |-> path_params,
                 query_params |-> query_params,
                 outcome |-> IF outcome.kind = "return"
                             THEN [outcome EXCEPT !.ctx = ctx]
                             ELSE outcome]
  /\ UNCHANGED <<phase, route_config, options, flat_routes, routes>>

\* One call link(route_id, path_params, ...query_params).
Link(route_id, path_params, query_params) ==
  /\ phase = "ready"
  /\ last' = [called |-> TRUE, route_id |-> route_id, path_params |-> path_params,
              query_params |-> query_params,
              outcome |-> link(routes, options, route_id, path_params, query_params)]
  /\ UNCHANGED <<phase, route_config, options, flat_routes, routes>>

Next ==
  \E route_id \in CallIds, path_params \in ParamPool,
     query_params \in {<<>>, <<ReservedChunk>>} :
    Link(route_id, path_params, query_params)

Spec == Init /\ [][Next]_vars

\* One call with several query chunks, on a generator over a single route level.
QueryInit == \E config \in Chains(1), opts \in OptionPool : Generator(config, opts)

QueryNext ==
  /\ ~last.called
  /\ \E route_id \in CallIds, path_params \in {NoParams, Params(<<>>)},
     query_params \in ChunkLists(MaxChunks) :
    Link(route_id, path_params, query_params)

QuerySpec == QueryInit /\ [][QueryNext]_vars

\* The flatteners applied to a route tree.
FlattenInit ==
  /\ phase = "config"
  /\ route_config \in Forests(MaxNodes)
  /\ options = DefaultOptions
  /\ flat_routes = <<>>
  /\ routes = <<>>
  /\ last = NoCall

FlattenLinkGenerator ==
  /\ phase = "config"
  /\ phase' = "flat"
  /\ flat_routes' = flatten_route_config(route_config, <<>>, <<>>)
  /\ UNCHANGED <<route_config, options, routes, last>>

FlattenModule ==
  /\ phase = "config"
  /\ phase' = "flat_mod"
  /\ flat_routes' = flatten_route_config_mod(route_config, <<>>, <<>>)
  /\ UNCHANGED <<route_config, options, routes, last>>

FlattenNext == FlattenLinkGenerator \/ FlattenModule

FlattenSpec == FlattenInit /\ [][FlattenNext]_vars

----------------------------------------------------------------------------
(* Claims about the link function (Spec) *)

Outcome == last.outcome

\* The flattened template of the route the latest call asked for.
FlatTemplate == Lookup(flat_routes, last.route_id, <<>>)

EmptyStringName == <<"E", "M", "P", "T", "Y", "_", "S", "T", "R", "I", "N", "G">>

\* C2: link called with the empty string as route id throws the error
\* "Invalid route id: EMPTY_STRING", which names EMPTY_STRING instead of
\* echoing the empty id.
C2_EmptyIdNamesEmptyString ==
  (last.called /\ last.route_id = <<>> /\ \E i \in 1..Len(routes) : routes[i].v # <<>>)
    => /\ Outcome.kind = "throw"
       /\ Outcome.message = InvalidRouteId \o EmptyStringName

\* A template with no parameter marker, no query area and no constraint.
IsStaticTemplate(template) ==
  /\ \A i \in 1..Len(template) : template[i] \notin {Query, ConstraintOpen}
  /\ \A i \in 2..Len(template) :
       ~(template[i] = PathParam /\ template[i - 1] = PathSeparater)

\* C3: with default options, link(id) on a route whose template has no
\* parameters and no query area returns exactly the flattened template, on
\* every call, whatever calls came before.
C3_StaticRouteReturnsTemplate ==
  ( /\ last.called
    /\ options = DefaultOptions
    /\ last.route_id \in Keys(flat_routes)
    /\ IsStaticTemplate(FlatTemplate)
    /\ ~last.path_params.given
    /\ last.query_params = <<>> )
    => /\ Outcome.kind = "return"
       /\ Outcome.value = FlatTemplate

----------------------------------------------------------------------------
(* Claims about the flatteners (FlattenSpec) *)

\* The nodes of a route tree: the chain of ids from the root joined with "/",
\* the chain of the parent, the node's own path and its depth.
RECURSIVE NodesOf(_, _, _)
NodesOf(config, parent, depth) ==
  UNION { LET chain == IF depth = 1 THEN config[i].id
                       ELSE parent \o <<"/">> \o config[i].id
          IN {[id |-> chain, parent |-> parent, path |-> config[i].path, depth |-> depth]}
             \cup NodesOf(config[i].children, chain, depth + 1)
          : i \in 1..Len(config) }

Nodes == NodesOf(route_config, <<>>, 1)

ChainIds == {n.id : n \in Nodes}

\* No two nodes of the tree share a chain of ids.
DistinctChains == Cardinality(Nodes) = Cardinality(ChainIds)

Flattened == phase \in {"flat", "flat_mod"}

FlatEntry(id) == Lookup(flat_routes, id, <<>>)

\* A path without its query area: everything before its first "?".
BeforeQuery(path) ==
  IF \E i \in 1..Len(path) : path[i] = "?"
  THEN SubSeq(path, 1, (CHOOSE i \in 1..Len(path) :
                          path[i] = "?" /\ \A j \in 1..(i - 1) : path[j] # "?") - 1)
  ELSE path

IsSuffix(t, s) == Len(t) <= Len(s) /\ SubSeq(s, Len(s) - Len(t) + 1, Len(s)) = t

\* C4: the flat-map entry of a child at any depth is the parent's full path
\* with the parent's own query area (everything from its first "?" onward)
\* removed, followed by the child's path (flatten_route_config.ts, whose
\* entries keep the routes' own paths).
C4_ChildEntryDropsParentQuery ==
  (phase = "flat_mod" /\ DistinctChains)
    => \A n \in Nodes :
         n.depth > 1 => FlatEntry(n.id) = BeforeQuery(FlatEntry(n.parent)) \o n.path

\* C5: every route's own path is kept intact in its own flat-map entry, query
\* area included: a top-level entry equals the route's path and a nested entry
\* ends with the route's own path (flatten_route_config of link_generator.ts).
C5_OwnPathKeptIntact ==
  (phase = "flat" /\ DistinctChains)
    => \A n \in Nodes :
         /\ n.depth = 1 => FlatEntry(n.id) = n.path
         /\ IsSuffix(n.path, FlatEntry(n.id))

\* C6: the keys of the flattener's result are exactly the chains of ids from a
\* root to a node of the tree, joined with "/".
C6_KeysAreIdChains == Flattened => Keys(flat_routes) = ChainIds

C6_Witness ==
  /\ phase = "flat"
  /\ \E n \in Nodes : n.depth = 3 /\ n.id \in Keys(flat_routes)
  /\ Cardinality(Keys(flat_routes)) = 3

----------------------------------------------------------------------------
(* Claims about rendering (Spec, QuerySpec) *)

\* The template the closure holds for the route the latest call asked for.
RouteTemplate == Lookup(routes, last.route_id, <<>>)

Returns == last.called /\ Outcome.kind = "return"

Contains(s, c) == \E i \in 1..Len(s) : s[i] = c

\* s.split(c)
RECURSIVE SplitOn(_, _)
SplitOn(s, c) ==
  IF ~Contains(s, c) THEN <<s>>
  ELSE LET at == CHOOSE i \in 1..Len(s) : s[i] = c /\ \A j \in 1..(i - 1) : s[j] # c
       IN <<SubSeq(s, 1, at - 1)>> \o SplitOn(SubSeq(s, at + 1, Len(s)), c)

\* parts.join(c)
RECURSIVE JoinWith(_, _)
JoinWith(parts, c) ==
  IF parts = <<>> THEN <<>>
  ELSE IF Len(parts) = 1 THEN parts[1]
  ELSE parts[1] \o <<c>> \o JoinWith(Tail(parts), c)

RECURSIVE Flatten(_)
Flatten(seqs) == IF seqs = <<>> THEN <<>> ELSE Head(seqs) \o Flatten(Tail(seqs))

\* The text of the constraint annotations of LinkPathPool; no other part of a
\* template and no rendered value holds one of these characters.
AnnotationChars == {"<", ">", "(", "|", ")", "m", "o"}

\* C7: no string link returns holds "<", ">" or the body of a constraint
\* annotation of the template, whether or not path params and query chunks
\* are supplied.
C7_ConstraintErasure ==
  Returns => \A i \in 1..Len(Outcome.value) : Outcome.value[i] \notin AnnotationChars

C7_Witness ==
  /\ Returns
  /\ Len(SelectSeq(FlatTemplate, LAMBDA c : c = "<")) = 2
  /\ last.path_params.given
  /\ last.query_params # <<>>

\* A segment of a template that follows a "/": a parameter marker if it is
\* ":" and a non-empty name that runs up to a "?" or the segment's end.
IsMarker(segment) ==
  /\ Len(segment) >= 2
  /\ segment[1] = ":"
  /\ segment[2] # "?"

MarkerName(segment) == BeforeQuery(Tail(segment))

SubstituteSegment(segment, params) ==
  IF IsMarker(segment)
  THEN encodeURIComponent(Lookup(params, MarkerName(segment), Undefined))
       \o SubSeq(segment, Len(MarkerName(segment)) + 2, Len(segment))
  ELSE segment

\* The template with every marker that follows a "/" replaced by the rendered
\* value of its parameter, every other character kept.
Substituted(template, params) ==
  LET segments == SplitOn(template, "/")
  IN JoinWith([j \in 1..Len(segments) |->
                 IF j = 1 THEN segments[j] ELSE SubstituteSegment(segments[j], params)],
              "/")

\* The key=value pairs of the chunks, in supplied order, without those whose
\* value is in the set dropped.
RECURSIVE PairsOf(_, _)
PairsOf(entries, dropped) ==
  IF entries = <<>> THEN <<>>
  ELSE (IF Head(entries).v \in dropped THEN <<>>
        ELSE <<Head(entries).k \o <<"=">> \o encodeURIComponent(Head(entries).v)>>)
       \o PairsOf(Tail(entries), dropped)

\* "?" and the pairs joined by "&", or nothing when no pair is left or the
\* generator was built with should_append_query: false.
QuerySuffix(dropped) ==
  LET pairs == PairsOf(Flatten(last.query_params), dropped)
  IN IF ShouldAppendQuery(options) /\ pairs # <<>>
     THEN <<"?">> \o JoinWith(pairs, "&")
     ELSE <<>>

\* C8: when path params are supplied, every ":name" marker of the template
\* that directly follows a "/" is replaced by the rendered value of
\* params[name], and every other ":" of the template is left as it is.
C8_MarkersAfterSeparatorReplaced ==
  (Returns /\ last.path_params.given)
    => Outcome.value = Substituted(RouteTemplate, last.path_params.obj)
                         \o QuerySuffix({Str(<<>>), Undefined})

C8_Witness ==
  /\ Returns
  /\ RouteTemplate = <<"a", ":", "3", "/", ":", "p">>
  /\ last.path_params = Params(<<Entry(<<"p">>, Str(<<"a">>))>>)
  /\ last.query_params = <<>>
  /\ Outcome.value = <<"a", ":", "3", "/", "a">>

\* The path of the latest call: what link returns for the same route id and
\* path params when no query chunk is passed.
BasePath == link(routes, options, last.route_id, last.path_params, <<>>).value

\* C9: pairs whose value is "", undefined or null are dropped; the result is
\* the path alone when no pair is left, and otherwise the path, "?" and the
\* remaining pairs in their original order joined by "&".
C9_DropsEmptyUndefinedNull ==
  (Returns /\ ShouldAppendQuery(options) /\ last.query_params # <<>>)
    => Outcome.value = BasePath \o QuerySuffix({Str(<<>>), Undefined, Null})

\* What the filter of create_query_string_from_object does: pairs whose value
\* is "" or undefined are dropped, a null value is kept and rendered as
\* key=null; the remaining pairs follow the path and "?" in their original
\* order, joined by "&".
DropsEmptyAndUndefined ==
  (Returns /\ last.query_params # <<>>)
    => Outcome.value = BasePath \o QuerySuffix({Str(<<>>), Undefined})

\* The query string of the returned link: what follows the path and its "?".
QueryPart == SubSeq(Outcome.value, Len(BasePath) + 2, Len(Outcome.value))

\* The rendered values the returned query string gives for a key, in order.
RenderedFor(key) ==
  LET pairs == IF QueryPart = <<>> THEN <<>> ELSE SplitOn(QueryPart, "&")
      of_key == SelectSeq(pairs, LAMBDA pair : SplitOn(pair, "=")[1] = key)
  IN [i \in 1..Len(of_key) |-> JoinWith(Tail(SplitOn(of_key[i], "=")), "=")]

\* The values supplied for a key over all chunks that survive the filter, in
\* argument order, as rendered.
SuppliedFor(key) ==
  LET of_key == SelectSeq(Flatten(last.query_params),
                          LAMBDA e : e.k = key /\ e.v \notin {Str(<<>>), Undefined})
  IN [i \in 1..Len(of_key) |-> encodeURIComponent(of_key[i].v)]

\* C10: every surviving occurrence of a key, over all query chunks of one
\* call, yields its own key=value pair, in argument order; no later occurrence
\* overwrites an earlier one.
C10_RepeatedKeysAccumulate ==
  (Returns /\ ShouldAppendQuery(options))
    => \A key \in {<<"k">>, <<"j">>} : RenderedFor(key) = SuppliedFor(key)

C10_Witness ==
  /\ Returns
  /\ ShouldAppendQuery(options)
  /\ last.query_params =
       << <<Entry(<<"k">>, Str(<<"a">>))>>, <<Entry(<<"k">>, Num(1)), Entry(<<"j">>, Undefined)>> >>
  /\ QueryPart = <<"k", "=", "a", "&", "k", "=", "1">>

----------------------------------------------------------------------------
(* Claims about the query area of a template and the options (Spec, QuerySpec) *)

\* The query string link serializes from the chunks of the latest call: the
\* pairs whose value is neither "" nor undefined, joined by "&".
SerializedQuery == JoinWith(PairsOf(Flatten(last.query_params), {Str(<<>>), Undefined}), "&")

\* C11: the query area written in a template, wherever the route's own path
\* puts it (a child path that starts with "?" included), never appears in
\* what link returns: without query values the result holds no "?", and with
\* query values the only "?" is the one link appends in front of the
\* serialized values.
C11_TemplateQueryAreaNotRendered ==
  (Returns /\ options.transform = "none")
    => LET appended == IF SerializedQuery = <<>> THEN <<>> ELSE <<"?">> \o SerializedQuery
           path_part == SubSeq(Outcome.value, 1, Len(Outcome.value) - Len(appended))
       IN /\ IsSuffix(appended, Outcome.value)
          /\ ~Contains(path_part, "?")

\* C12: a generator built with should_append_query: false never appends a
\* query string, whatever chunks are passed; built with true, undefined or
\* no option, link appends "?" and the serialized query string when that
\* string is not empty.
C12_ShouldAppendQueryOption ==
  Returns
    => Outcome.value =
         IF options.should_append_query = "false" \/ SerializedQuery = <<>>
         THEN BasePath
         ELSE BasePath \o <<"?">> \o SerializedQuery

C12_Witness ==
  /\ Returns
  /\ options.should_append_query = "false"
  /\ SerializedQuery # <<>>
  /\ Outcome.value = BasePath
  /\ BasePath # <<>>

----------------------------------------------------------------------------
(* generator.ts and flattenConfig.ts: createLinkGenerator over the result of *)
(* flattenRouteConfig *)

Param == ":"
OptionalParam == "?"
Search == "?"
AbsoluteRoute == "*"

StartsWith(s, prefix) == Len(s) >= Len(prefix) /\ SubSeq(s, 1, Len(prefix)) = prefix

\* The first index (0-based) at which the string sub occurs in s, or -1.
IndexOfString(s, sub) ==
  LET starts == {i \in 1..(Len(s) - Len(sub) + 1) : SubSeq(s, i, i + Len(sub) - 1) = sub}
  IN IF starts = {} THEN -1
     ELSE (CHOOSE i \in starts : \A j \in starts : i <= j) - 1

\* [a-zA-Z]
Letters ==
  {"a", "b", "c", "d", "e", "f", "g", "h", "i", "j", "k", "l", "m",
   "n", "o", "p", "q", "r", "s", "t", "u", "v", "w", "x", "y", "z",
   "A", "B", "C", "D", "E", "F", "G", "H", "I", "J", "K", "L", "M",
   "N", "O", "P", "Q", "R", "S", "T", "U", "V", "W", "X", "Y", "Z"}

isAbsoluteRoute(routeId) == StartsWith(routeId, <<AbsoluteRoute>>)

\* path.slice(Symbols.PathSeparater.length)
removeExtraSeparatorFromBeforeProtocol(path) == Slice(path, 1, Len(path))

\* No replace at all: the separator put after the protocol stays.
KeepSeparatorAfterProtocol(path) == path

\* path.replace(/(?<protocol>[a-zA-Z]+:)\/(?=\/\/)/, protocol): the first
\* ":" that follows a letter and is followed by "///" loses the "/" after it.
removeExtraSeparatorFromAfterProtocol(path) ==
  LET colons == {j \in 2..(Len(path) - 3) :
                   /\ path[j] = ":"
                   /\ path[j - 1] \in Letters
                   /\ SubSeq(path, j + 1, j + 3) = <<"/", "/", "/">>}
  IN IF colons = {} THEN path
     ELSE LET j == CHOOSE c \in colons : \A d \in colons : c <= d
          IN SubSeq(path, 1, j) \o SubSeq(path, j + 2, Len(path))

removeExtraSeparatorsFromProtocolField(routeId, path) ==
  IF isAbsoluteRoute(routeId)
  THEN removeExtraSeparatorFromBeforeProtocol(path)
  ELSE removeExtraSeparatorFromAfterProtocol(path)

\* for (const childRouteId in children) result[parent/child] = removeExtra...(children[child])
RECURSIVE CopyChildrenAfterProtocol(_, _, _)
CopyChildrenAfterProtocol(result, parentRouteId, children) ==
  IF children = <<>> THEN result
  ELSE LET childFullRouteId == parentRouteId \o <<PathSeparater>> \o Head(children).k
       IN CopyChildrenAfterProtocol(
            ObjSet(result, childFullRouteId,
                   removeExtraSeparatorFromAfterProtocol(Head(children).v)),
            parentRouteId, Tail(children))

\* The separator put in front of currentPath when it does not start with one.
LeadingSeparator(currentPath) ==
  IF StartsWith(currentPath, <<PathSeparater>>) THEN <<>> ELSE <<PathSeparater>>

RECURSIVE flattenRouteConfig(_, _, _)
flattenRouteConfig(routeConfig, parentPath, result) ==
  IF routeConfig = <<>> THEN result
  ELSE LET route == Head(routeConfig)
           parentRouteId == route.id
           currentPath == route.path
           fullPath == removeExtraSeparatorsFromProtocolField(
                         parentRouteId,
                         parentPath \o LeadingSeparator(currentPath) \o currentPath)
           own == ObjSet(result, parentRouteId, fullPath)
           children == flattenRouteConfig(route.children, fullPath, <<>>)
       IN flattenRouteConfig(Tail(routeConfig), parentPath,
                             CopyChildrenAfterProtocol(own, parentRouteId, children))

isRootPath(path) == path = <<"/">>

\* generator.ts: the search area starts at the first "/?" that is not at index 0.
removeQueryArea(path) ==
  LET searchAreaStartIndex == IndexOfString(path, <<PathSeparater, Search>>)
      isExistSearchArea == searchAreaStartIndex > 0
  IN IF isExistSearchArea THEN Slice(path, 0, searchAreaStartIndex) ELSE path

removeConstrainedArea(path) == remove_constraint_area(path)

\* JavaScript truthiness of a parameter value.
Truthy(v) ==
  CASE v.t = "string" -> v.s # <<>>
    [] v.t = "number" -> v.n # 0
    [] v.t = "boolean" -> v.n = 1
    [] OTHER -> FALSE

\* A replacer that drops the marker of an absent value but not its separator.
ParamReplacementKeepSeparator(params, paramName) ==
  IF ~params.given THEN <<PathSeparater>>
  ELSE LET paramValue == Lookup(params.obj, paramName, Undefined)
       IN IF Truthy(paramValue)
          THEN <<PathSeparater>> \o encodeURIComponent(paramValue)
          ELSE <<PathSeparater>>

\* A replacer that leaves the raw marker of an absent value in the path.
ParamReplacementKeepMarker(params, paramName) ==
  IF ~params.given THEN <<PathSeparater, Param>> \o paramName
  ELSE LET paramValue == Lookup(params.obj, paramName, Undefined)
       IN IF Truthy(paramValue)
          THEN <<PathSeparater>> \o encodeURIComponent(paramValue)
          ELSE <<PathSeparater, Param>> \o paramName

\* The replacer of replaceParams: "" without params or for a falsy value.
ParamReplacement(params, paramName) ==
  IF ~params.given THEN <<>>
  ELSE LET paramValue == Lookup(params.obj, paramName, Undefined)
       IN IF Truthy(paramValue)
          THEN <<PathSeparater>> \o encodeURIComponent(paramValue)
          ELSE <<>>

\* path.replace(/\/:(?<paramName>[^\/?]+)\??/g, replacer)
RECURSIVE ReplaceParamsAt(_, _, _)
ReplaceParamsAt(path, params, i) ==
  IF i > Len(path) THEN <<>>
  ELSE LET end == NameEnd(path, i + 2)
           is_param_area == /\ path[i] = PathSeparater
                            /\ i + 1 <= Len(path)
                            /\ path[i + 1] = Param
                            /\ end > i + 2
           after == IF end <= Len(path) /\ path[end] = OptionalParam THEN end + 1 ELSE end
       IN IF is_param_area
          THEN ParamReplacement(params, SubSeq(path, i + 2, end - 1))
               \o ReplaceParamsAt(path, params, after)
          ELSE <<path[i]>> \o ReplaceParamsAt(path, params, i + 1)

replaceParams(path, params) == ReplaceParamsAt(path, params, 1)

\* Object.entries(search).filter(...).map(...).join("&")
RECURSIVE createSearchParams(_)
createSearchParams(search) ==
  IF search = <<>> THEN <<>>
  ELSE LET value == Head(search).v
           kept == value # Str(<<>>) /\ value # Undefined /\ value # Null
           rest == createSearchParams(Tail(search))
       IN IF ~kept THEN rest
          ELSE Head(search).k \o <<"=">> \o encodeURIComponent(value)
               \o (IF rest = <<>> THEN <<>> ELSE <<"&">> \o rest)

\* What reading a method of undefined raises.
TypeError == <<"T", "y", "p", "e", "E", "r", "r", "o", "r">>

\* The closure createLinkGenerator returns. search is <<>> when the argument
\* is omitted and <<object>> when it is passed.
createLinkGenerator(flatRouteConfig, routeId, params, search) ==
  IF ~HasKey(flatRouteConfig, routeId) THEN Thrown(TypeError)
  ELSE LET pathTemplate == Lookup(flatRouteConfig, routeId, <<>>)
       IN IF isRootPath(pathTemplate) THEN Returned(<<"/">>, 0, RouteContext(<<>>))
          ELSE LET path1 == replaceParams(removeConstrainedArea(removeQueryArea(pathTemplate)),
                                          params)
                   searchParams == IF search = <<>> THEN <<>>
                                   ELSE createSearchParams(search[1])
                   path2 == IF searchParams # <<>>
                            THEN path1 \o <<"?">> \o searchParams
                            ELSE path1
               IN Returned(path2, 0, RouteContext(<<>>))

\* Own paths of the routes handed to flattenRouteConfig.
GenPathPool ==
  { <<"/">>,
    <<"/", "p", "/", ":", "i", "d", "?">>,
    <<"p", "/", ":", "i", "d">>,
    <<"/", "n", "/", "?", "k", "<", "m", ">">>,
    <<"h", "t", "t", "p", "s", ":", "/", "/">>,
    <<"y", ".", "c", "o", "m", "/", ":", "i", "d">>,
    <<"/", ":", "u", "<", "m", ">">> }

\* A top-level route, plain or marked absolute, with at most one child.
GenTrees ==
  { <<Route(id, path, children)>> :
      id \in {<<"r">>, <<"*", "r">>},
      path \in GenPathPool,
      children \in {<<>>} \cup {<<Route(<<"c">>, cp, <<>>)>> : cp \in GenPathPool} }

\* The params argument: omitted (or undefined, null), {} and {id: value}.
GenParamPool ==
  { NoParams, Params(<<>>) } \cup
  { Params(<<Entry(<<"i", "d">>, value)>>) :
      value \in {Str(<<"4", "2">>), Undefined, Num(0), Bool(FALSE)} }

\* The search argument: omitted, or one object.
GenSearchPool ==
  { <<>> } \cup
  { <<search>> :
      search \in { <<Entry(<<"k">>, Str(<<"a">>))>>,
                   <<Entry(<<"k">>, Num(0)), Entry(<<"j">>, Bool(FALSE))>>,
                   <<Entry(<<"k">>, Null), Entry(<<"j">>, Str(<<>>))>> } }

\* createLinkGenerator(flattenRouteConfig(routeConfig))
GenInit ==
  /\ phase = "gen"
  /\ route_config \in GenTrees
  /\ options = DefaultOptions
  /\ flat_routes = flattenRouteConfig(route_config, <<>>, <<>>)
  /\ routes = <<>>
  /\ last = NoCall

\* One call link(routeId, params, search).
GenLink(routeId, params, search) ==
  /\ phase = "gen"
  /\ ~last.called
  /\ last' = [called |-> TRUE, route_id |-> routeId, path_params |-> params,
              query_params |-> search,
              outcome |-> createLinkGenerator(flat_routes, routeId, params, search)]
  /\ UNCHANGED <<phase, route_config, options, flat_routes, routes>>

GenNext ==
  \E routeId \in Keys(flat_routes) \cup {<<"x">>},
     params \in GenParamPool, search \in GenSearchPool :
    GenLink(routeId, params, search)

GenSpec == GenInit /\ [][GenNext]_vars

----------------------------------------------------------------------------
(* Claims about createLinkGenerator and flattenRouteConfig (GenSpec) *)

OptionalIdMarker == <<"/", ":", "i", "d", "?">>

\* What precedes the trailing "/:id?" of the template the latest call asked for.
PrefixOfOptionalId == SubSeq(FlatTemplate, 1, Len(FlatTemplate) - Len(OptionalIdMarker))

\* The template of the latest call is a static path followed by "/:id?".
EndsWithOptionalId ==
  /\ IsSuffix(OptionalIdMarker, FlatTemplate)
  /\ IsStaticTemplate(PrefixOfOptionalId)

\* "?" and the key=value pairs of the search object whose value is not "",
\* undefined or null, or nothing when no pair is left.
SearchSuffix ==
  LET pairs == PairsOf(Flatten(last.query_params), {Str(<<>>), Undefined, Null})
  IN IF pairs = <<>> THEN <<>> ELSE <<"?">> \o JoinWith(pairs, "&")

IdArgument == Lookup(last.path_params.obj, <<"i", "d">>, Undefined)

\* C15: for a template whose last segment is an optional path parameter,
\* rendering with the parameter absent (params omitted, undefined, or id
\* undefined) yields exactly the path before the segment, with no trailing
\* "/", and rendering with id = "42" yields that path followed by "/42".
C15_OptionalParamCollapse ==
  (phase = "gen" /\ Returns /\ EndsWithOptionalId)
    => /\ (~last.path_params.given \/ IdArgument = Undefined)
            => Outcome.value = PrefixOfOptionalId \o SearchSuffix
       /\ (last.path_params.given /\ IdArgument = Str(<<"4", "2">>))
            => Outcome.value = PrefixOfOptionalId \o <<"/", "4", "2">> \o SearchSuffix

C15_Witness ==
  /\ phase = "gen"
  /\ Returns
  /\ FlatTemplate = <<"/", "p", "/", ":", "i", "d", "?">>
  /\ last.path_params = Params(<<Entry(<<"i", "d">>, Undefined)>>)
  /\ last.query_params = <<>>
  /\ Outcome.value = <<"/", "p">>

Https == <<"h", "t", "t", "p", "s", ":", "/", "/">>

C17_ZeroAndFalseArePresent ==
  ( /\ phase = "gen"
    /\ Returns
    /\ EndsWithOptionalId
    /\ last.path_params.given
    /\ IdArgument \in {Num(0), Bool(FALSE)} )
    => Outcome.value = PrefixOfOptionalId \o <<"/">> \o StringOf(IdArgument) \o SearchSuffix

----------------------------------------------------------------------------
(* Route trees whose ids may hold the id separator (IdSpec) *)

\* Route ids, one of them with the id separator inside.
SeparatorIdPool == {<<"a">>, <<"b">>, <<"a", "/", "b">>}

\* Own paths that tell the routes of a tree apart.
PlainPathPool == {<<"/", "a">>, <<"/", "b">>}

\* Ordered route trees with n nodes over the ids and paths of these pools,
\* sibling ids distinct (object keys).
RECURSIVE SeparatorIdForests(_)
SeparatorIdForests(n) ==
  IF n = 0 THEN {<<>>}
  ELSE UNION { { <<Route(x[1], x[2], x[3])>> \o x[4] :
                   x \in { y \in SeparatorIdPool \X PlainPathPool
                                  \X SeparatorIdForests(k - 1) \X SeparatorIdForests(n - k) :
                             y[1] \notin SiblingIds(y[4]) } } : k \in 1..n }

IdInit ==
  /\ phase = "config"
  /\ route_config \in UNION {SeparatorIdForests(n) : n \in 0..MaxNodes}
  /\ options = DefaultOptions
  /\ flat_routes = <<>>
  /\ routes = <<>>
  /\ last = NoCall

IdSpec == IdInit /\ [][FlattenNext]_vars

\* The number of nodes of a route tree.
RECURSIVE NodeCount(_)
NodeCount(config) ==
  IF config = <<>> THEN 0
  ELSE 1 + NodeCount(Head(config).children) + NodeCount(Tail(config))

\* C18: distinct nodes of a route tree whose ids are unique within each level
\* get distinct composite ids, so the flat map holds exactly one entry per
\* node and no entry is overwritten by the entry of another node, also when
\* an id holds "/".
C18_OneEntryPerNode ==
  phase = "flat" => Len(flat_routes) = NodeCount(route_config)

----------------------------------------------------------------------------
(* One link call on a generator built with any options (HookSpec) *)

HookInit == \E config \in Chains(1), opts \in OptionPool : Generator(config, opts)

HookNext ==
  /\ ~last.called
  /\ \E route_id \in CallIds, path_params \in ParamPool,
        query_params \in ChunkLists(MaxChunks - 1) :
       Link(route_id, path_params, query_params)

HookSpec == HookInit /\ [][HookNext]_vars

\* The template of the requested route after path-parameter substitution.
SubstitutedTemplate ==
  IF last.path_params.given
  THEN Substituted(RouteTemplate, last.path_params.obj)
  ELSE RouteTemplate

ValuesFor(key) ==
  LET of_key == SelectSeq(Flatten(last.query_params), LAMBDA e : e.k = key)
  IN [i \in 1..Len(of_key) |-> of_key[i].v]

SuppliedKeys == {Flatten(last.query_params)[i].k : i \in 1..Len(Flatten(last.query_params))}

----------------------------------------------------------------------------
(* Claims about calls and their effects (CallsSpec, HookSpec) *)

\* Any sequence of link calls on a generator built with any options.
CallsNext ==
  \E route_id \in CallIds,
     path_params \in {NoParams, Params(<<Entry(<<"p">>, Str(<<"a">>))>>)},
     query_params \in {<<>>, <<ReservedChunk>>} :
    Link(route_id, path_params, query_params)

CallsSpec == HookInit /\ [][CallsNext]_vars

\* The map link_generator builds from the route tree at construction.
ConstructedRoutes == create_routes_map(flatten_route_config(route_config, <<>>, <<>>))

\* C19: every link call, returning or throwing, leaves the captured route
\* map and the options as they are, and its result is what the arguments of
\* that call give on the map built at construction, whatever calls came
\* before.
C19_CallsLeaveGeneratorUnchanged ==
  [][ /\ routes' = routes
      /\ flat_routes' = flat_routes
      /\ options' = options
      /\ last'.outcome = link(ConstructedRoutes, options, last'.route_id,
                              last'.path_params, last'.query_params) ]_vars

C19_Witness ==
  /\ last.called
  /\ Outcome.kind = "throw"
  /\ options.transform = "prefix"
  /\ routes # <<>>
  /\ routes = ConstructedRoutes
  /\ \A i \in 1..Len(routes) : routes[i].v # <<>>

\* C20: a failing link call has no partial effect: for an unknown route id
\* the error is raised before the transform hook is invoked and before any
\* path is built, so the hook is not called and no string is returned.
C20_FailureBeforeHook ==
  (last.called /\ last.route_id \notin Keys(flat_routes))
    => /\ Outcome.kind = "throw"
       /\ Outcome.hook_calls = 0
       /\ Outcome.value = <<>>
       /\ Outcome.ctx = RouteContext(<<>>)

C20_Witness ==
  /\ last.called
  /\ options.transform = "prefix"
  /\ last.route_id = <<"x">>
  /\ last.query_params # <<>>
  /\ HasKey(routes, <<"r">>)
  /\ Outcome.kind = "throw"
  /\ Outcome.hook_calls = 0

----------------------------------------------------------------------------
(* Claims about the order of the steps of a link call (HookSpec) *)

----------------------------------------------------------------------------
(* Claims about the join of a parent path and a child path (Spec) *)

WithoutTrailingSeparator(path) ==
  IF EndsWith(path, "/") THEN SubSeq(path, 1, Len(path) - 1) ELSE path

WithoutLeadingSeparator(path) ==
  IF StartsWith(path, <<"/">>) THEN Tail(path) ELSE path

\* C22: where the flattener joins a parent path and a child path there is
\* exactly one "/": a parent that ends in "/" and a child that starts with
\* "/" give no "//", and a child that does not start with "/" is still
\* separated from its parent by one "/".
C22_OneSeparatorAtJoin ==
  ( /\ phase = "ready"
    /\ Len(route_config) = 1
    /\ Len(route_config[1].children) = 1 )
    => LET parent == route_config[1].path
           child == route_config[1].children[1].path
       IN ( /\ parent # <<>>
            /\ child # <<>>
            /\ IsStaticTemplate(parent)
            /\ IsStaticTemplate(child) )
            => FlatEntry(<<"r", "/", "r">>)
                 = WithoutTrailingSeparator(parent) \o <<"/">> \o WithoutLeadingSeparator(child)

----------------------------------------------------------------------------
(* Claims about path params without a value (Spec, GenSpec) *)

\* C23: when the params mapping is given but has no entry for the name of a
\* path parameter, link leaves the raw ":name" marker in the output: it
\* returns the template unchanged (followed by the query string), it does not
\* throw and it inserts no other text in the marker's place.
C23_MissingParamLeavesMarker ==
  ( /\ last.called
    /\ last.route_id \in Keys(routes)
    /\ RouteTemplate # <<>>
    /\ last.path_params.given
    /\ last.path_params.obj = <<>>
    /\ options.transform # "prefix" )
    => /\ Outcome.kind = "return"
       /\ Outcome.value = RouteTemplate \o QuerySuffix({Str(<<>>), Undefined})

\* A segment of a template that is a path-parameter marker, ":name" or ":name?".
IsMarkerSegment(segment) ==
  /\ Len(segment) >= 2
  /\ segment[1] = ":"
  /\ segment[2] # "?"

OptionalMarkerName(segment) ==
  IF segment[Len(segment)] = "?"
  THEN SubSeq(segment, 2, Len(segment) - 1)
  ELSE SubSeq(segment, 2, Len(segment))

\* The segments after the first one, each with its "/": a marker without a
\* value is left out with its "/", a marker with a value becomes the value.
RECURSIVE SuppliedSegments(_, _)
SuppliedSegments(segments, params) ==
  IF segments = <<>> THEN <<>>
  ELSE LET segment == Head(segments)
           value == IF params.given /\ IsMarkerSegment(segment)
                    THEN Lookup(params.obj, OptionalMarkerName(segment), Undefined)
                    ELSE Undefined
           kept == IF ~IsMarkerSegment(segment) THEN <<"/">> \o segment
                   ELSE IF value = Undefined THEN <<>>
                   ELSE <<"/">> \o encodeURIComponent(value)
       IN kept \o SuppliedSegments(Tail(segments), params)

----------------------------------------------------------------------------
(* Calls whose values hold reserved characters (EncodeSpec) *)

\* Values with the characters that delimit segments and pairs in a URL.
ReservedValuePool ==
  { Str(<<"a">>),
    Str(<<"a", "/", "b">>),
    Str(<<"?">>),
    Str(<<"&", "k", "=", "b">>),
    Str(<<"#">>) }

\* Query arguments: none, one chunk {k}, or the chunks {k} and {j}.
ReservedChunkLists ==
  { <<>> } \cup
  { << <<Entry(<<"k">>, v)>> >> : v \in ReservedValuePool } \cup
  { << <<Entry(<<"k">>, v)>>, <<Entry(<<"j">>, w)>> >> :
      v \in ReservedValuePool, w \in ReservedValuePool }

EncodeInit == \E config \in Chains(1) : Generator(config, DefaultOptions)

EncodeNext ==
  /\ ~last.called
  /\ \E route_id \in CallIds,
        path_params \in {NoParams} \cup {Params(<<Entry(<<"p">>, v)>>) : v \in ReservedValuePool},
        query_params \in ReservedChunkLists :
       Link(route_id, path_params, query_params)

EncodeSpec == EncodeInit /\ [][EncodeNext]_vars

\* How many times the character c occurs in s.
Count(s, c) == Cardinality({i \in 1..Len(s) : s[i] = c})

\* How many key=value pairs of the latest call are serialized.
SurvivingPairs == Len(PairsOf(Flatten(last.query_params), {Str(<<>>), Undefined}))

\* C25: path-parameter values and query values are percent-encoded before
\* they are inserted, so a value holding "/", "?", "&", "=" or "#" adds none
\* of these characters to the result: the result has the "/" and "#" of the
\* template, one "?" more than the template exactly when a pair is
\* serialized, one "=" per pair and one "&" between two pairs, whatever the
\* values hold.
C25_ValuesPercentEncoded ==
  Returns
    => /\ Count(Outcome.value, "/") = Count(RouteTemplate, "/")
       /\ Count(Outcome.value, "#") = Count(RouteTemplate, "#")
       /\ Count(Outcome.value, "?")
            = Count(RouteTemplate, "?") + (IF SurvivingPairs > 0 THEN 1 ELSE 0)
       /\ Count(Outcome.value, "=") = Count(RouteTemplate, "=") + SurvivingPairs
       /\ Count(Outcome.value, "&")
            = Count(RouteTemplate, "&") + (IF SurvivingPairs > 0 THEN SurvivingPairs - 1 ELSE 0)

C25_Witness ==
  /\ Returns
  /\ RouteTemplate = <<"/", ":", "p">>
  /\ last.path_params = Params(<<Entry(<<"p">>, Str(<<"a", "/", "b">>))>>)
  /\ last.query_params = << <<Entry(<<"k">>, Str(<<"&", "k", "=", "b">>))>>,
                            <<Entry(<<"j">>, Str(<<"#">>))>> >>
  /\ Outcome.value = <<"/", "a", "%", "2", "F", "b", "?", "k", "=", "%", "2", "6", "k",
                       "%", "3", "D", "b", "&", "j", "=", "%", "2", "3">>

----------------------------------------------------------------------------
(* Claims about the invalid-route error (Spec) *)

\* C26: the invalid-route error is raised only for ids that are not keys of
\* the flattened map: for every id that is a key, a route whose flattened
\* template is the empty string included, link returns a string.
C26_EveryKeyReturns ==
  (last.called /\ last.route_id \in Keys(flat_routes))
    => Outcome.kind = "return"

----------------------------------------------------------------------------
(* Hooks that write to their context (MutatingHookSpec) *)

\* Options whose hook returns undefined, with or without writing to ctx.
MutatingOptionPool ==
  [should_append_query : {"undefined", "true", "false"},
   transform : {"undefined", "set_path"}]

MutatingHookInit ==
  \E config \in Chains(1), opts \in MutatingOptionPool : Generator(config, opts)

MutatingHookNext ==
  /\ ~last.called
  /\ \E route_id \in CallIds, path_params \in ParamPool,
        query_params \in {<<>>, <<ReservedChunk>>} :
       Link(route_id, path_params, query_params)

MutatingHookSpec == MutatingHookInit /\ [][MutatingHookNext]_vars

\* C27: the context handed to the transform hook is read-only: whatever the
\* hook does with the context object, when it returns undefined link falls
\* back to the path after parameter substitution; the hook influences the
\* result only through its return value.
C27_HookCannotChangeContext ==
  (Returns /\ options.transform \in {"undefined", "set_path"})
    => Outcome.value = SubstitutedTemplate \o QuerySuffix({Str(<<>>), Undefined})

----------------------------------------------------------------------------
(* Claims about the separators of the query string (QuerySpec) *)

\* What the latest call returned after the path: "" or "?" and the query string.
AfterPath == SubSeq(Outcome.value, Len(BasePath) + 1, Len(Outcome.value))

\* The values of all chunks of the latest call, in argument order.
SuppliedValues ==
  LET entries == Flatten(last.query_params)
  IN {entries[i].v : i \in 1..Len(entries)}

\* C28: for any list of query chunks the serialized query string has no
\* leading, trailing or doubled "&", also when the first, a middle or the
\* last chunk gives no pair, and "?" is appended only when a pair follows
\* it: every piece between two "&" is a key=value pair, nothing is appended
\* when every value is "" or undefined, and something is when some value is
\* a non-empty string or a number.
C28_NoStraySeparators ==
  (Returns /\ options.should_append_query # "false")
    => /\ SubSeq(Outcome.value, 1, Len(BasePath)) = BasePath
       /\ SuppliedValues \subseteq {Str(<<>>), Undefined} => AfterPath = <<>>
       /\ SuppliedValues \ {Str(<<>>), Undefined, Null} # {} => AfterPath # <<>>
       /\ AfterPath # <<>>
            => /\ Head(AfterPath) = "?"
               /\ Len(AfterPath) > 1
               /\ AfterPath[2] # "&"
               /\ AfterPath[Len(AfterPath)] # "&"
               /\ \A i \in 1..(Len(AfterPath) - 1) :
                    ~(AfterPath[i] = "&" /\ AfterPath[i + 1] = "&")
               /\ LET pairs == SplitOn(Tail(AfterPath), "&")
                  IN \A i \in 1..Len(pairs) : Count(pairs[i], "=") = 1

C28_Witness ==
  /\ Returns
  /\ options.should_append_query # "false"
  /\ BasePath = <<"/", "a">>
  /\ last.query_params = << <<Entry(<<"k">>, Str(<<>>))>>,
                            <<Entry(<<"k">>, Str(<<"a">>))>>,
                            <<Entry(<<"k">>, Undefined)>> >>
  /\ Outcome.value = <<"/", "a", "?", "k", "=", "a">>

----------------------------------------------------------------------------
(* Claims about the hook over a series of calls (CallsSpec) *)

\* The context a call builds from its own arguments alone: the requested id,
\* the template with this call's path params put in, these params and the
\* query context of this call's chunks.
ContextOf(call) ==
  LET template == Lookup(routes, call.route_id, <<>>)
  IN [id |-> call.route_id,
      path |-> IF call.path_params.given
               THEN Substituted(template, call.path_params.obj)
               ELSE template,
      params |-> IF call.path_params.given THEN call.path_params.obj ELSE <<>>,
      query |-> create_query_context(call.query_params)]

\* C29: on every link call that does not throw, whatever calls came before,
\* the transform hook is invoked exactly once, also on the short-circuit
\* path of a call without path params and query chunks (where a hook that
\* prefixes the path still shapes the result), and the context it gets is
\* built from this call's arguments alone: it carries no params, query or
\* path of an earlier call.
C29_HookOncePerCallFreshContext ==
  [][ last'.outcome.kind = "return"
        => /\ last'.outcome.hook_calls = 1
           /\ last'.outcome.ctx = ContextOf(last')
           /\ ( /\ ~last'.path_params.given
                /\ last'.query_params = <<>>
                /\ options.transform = "prefix" )
                => last'.outcome.value = CustomPrefix \o Lookup(routes, last'.route_id, <<>>) ]_vars

C29_Witness ==
  /\ Returns
  /\ options.transform = "prefix"
  /\ RouteTemplate = <<"/", ":", "p">>
  /\ ~last.path_params.given
  /\ last.query_params = <<>>
  /\ Outcome.hook_calls = 1
  /\ Outcome.ctx = [RouteContext(last.route_id) EXCEPT !.path = RouteTemplate]
  /\ Outcome.value = CustomPrefix \o RouteTemplate

====
